---- MODULE Spec2Model ----
(***************************************************************************)
(* ReplaySDK (src/src/index.ts): a browser session recorder.  Listeners    *)
(* capture pointer, click, scroll and DOM-snapshot events into an          *)
(* in-memory queue; a periodic timer posts the queue to a collector and    *)
(* puts a batch back at the head of the queue when its send fails.         *)
(*                                                                         *)
(* JavaScript runs every callback to completion, so each listener, timer   *)
(* callback and promise continuation is one action.  sendEvents suspends   *)
(* at `await fetch(...)` and again at `await response.json()`; a call      *)
(* suspended there is an element of inflight.                              *)
(***************************************************************************)
EXTENDS Integers, Sequences, FiniteSets, TLC

\* ------------------------------------------------------------------ bounds
MaxEvents == 4          \* captureEvent calls explored per session
MaxFailures == 1        \* failed sends explored per session
MaxMoveSignals == 10    \* pointer-move signals explored in the first 10 ms
StartTime == 1000       \* Date.now() when the constructor runs
MaxTicks == 3           \* advances of the clock explored per session

\* ---------------------------------------------------------- program constants
MoveThrottleMs == 50
ScrollThrottleMs == 100
SnapshotDelayMs == 1000
InitialCaptures == 2    \* captureInitialState enqueues a domSnapshot and a scroll

VARIABLES
  websiteId,          \* this.websiteId
  apiEndpoint,        \* this.apiEndpoint
  events,             \* this.events: the live queue
  isRunning,          \* this.isRunning
  sendInterval,       \* this.sendInterval: the handle setInterval returned
  intervalActive,     \* event loop: the interval of that handle is still scheduled
  lastDOMSnapshot,    \* this.lastDOMSnapshot
  domSnapshotTimeout, \* this.domSnapshotTimeout: NoHandle or the last setTimeout handle
  timeouts,           \* event loop: the pending setTimeout timers, each its handle and due instant
  lastMoveTime,       \* closure variable of the mousemove listener
  lastScrollTime,     \* closure variable of the scroll listener
  now,                \* Date.now()
  document,           \* document.documentElement as the page has it now
  inflight,           \* sendEvents calls suspended at an await
  captured,           \* history: every event passed to captureEvent, in call order
  acked,              \* history: the batches the collector answered with a success status
  requests,           \* history: number of fetch requests issued
  failures,           \* history: number of failed sends
  clickSignals,       \* history: the click signals delivered, in order
  movesInSpan,        \* history: pointer-move signals delivered in the first 10 ms
  notifiedAt,         \* history: the instants at which handleDOMMutation was called
  computations,       \* history: number of snapshot computations run
  ticks               \* history: number of advances of the clock

vars == <<websiteId, apiEndpoint, events, isRunning, sendInterval, intervalActive, lastDOMSnapshot,
          domSnapshotTimeout, timeouts, lastMoveTime, lastScrollTime, now,
          document, inflight, captured, acked, requests, failures,
          clickSignals, movesInSpan, notifiedAt, computations, ticks>>

\* The configuration fields are assigned once, in the constructor.
config == <<websiteId, apiEndpoint>>

NoHandle == 0

\* ------------------------------------------------------------- the document
\* The page is the list of the elements below <body>; an element is its tag
\* and its attributes (name/value pairs).
Attr(n, v) == [name |-> n, value |-> v]
Element(t, as) == [tag |-> t, attrs |-> as]

PlainDoc == <<Element("div", {})>>
ScriptDoc == <<Element("div", {}), Element("script", {})>>
HandlerDoc == <<Element("div", {Attr("onclick", "f()")})>>
PasswordDoc == <<Element("input", {Attr("type", "password"), Attr("value", "secret")})>>
Docs == {PlainDoc, ScriptDoc, HandlerDoc, PasswordDoc}

EmptyString == <<>>

\* new DOMParser().parseFromString(html, 'text/html'): every element gets its
\* properties; an input's type and value properties start as its attributes.
AttrOr(el, n, default) ==
  IF \E a \in el.attrs : a.name = n
  THEN (CHOOSE a \in el.attrs : a.name = n).value
  ELSE default

ParsedElement(el) ==
  [tag |-> el.tag, attrs |-> el.attrs,
   type |-> IF el.tag = "input" THEN AttrOr(el, "type", "text")
            ELSE IF el.tag = "textarea" THEN "textarea" ELSE "",
   value |-> AttrOr(el, "value", "")]

parseFromString(doc) == [i \in 1..Len(doc) |-> ParsedElement(doc[i])]

\* doc.querySelectorAll('script').forEach(el => el.remove())
RECURSIVE RemoveScripts(_)
RemoveScripts(doc) ==
  IF doc = <<>> THEN <<>>
  ELSE IF Head(doc).tag = "script" THEN RemoveScripts(Tail(doc))
       ELSE <<Head(doc)>> \o RemoveScripts(Tail(doc))

\* attr.name.startsWith('on'), over the attribute names of Docs
StartsWithOn(n) == n \in {"onclick", "onload", "on"}

RemoveHandlers(doc) ==
  [i \in 1..Len(doc) |->
     [doc[i] EXCEPT !.attrs = {a \in doc[i].attrs : ~StartsWithOn(a.name)}]]

\* el.value = '' on password and hidden inputs: it sets the value property
ClearSensitive(doc) ==
  [i \in 1..Len(doc) |->
     IF doc[i].tag \in {"input", "textarea"} /\ doc[i].type \in {"password", "hidden"}
     THEN [doc[i] EXCEPT !.value = ""]
     ELSE doc[i]]

\* documentElement.outerHTML: the root element, then tags and attributes;
\* properties are not serialized.  Never the empty string.
outerHTML(doc) ==
  <<Element("html", {})>> \o [i \in 1..Len(doc) |-> Element(doc[i].tag, doc[i].attrs)]

sanitizeDOM(doc) ==
  outerHTML(ClearSensitive(RemoveHandlers(RemoveScripts(parseFromString(doc)))))

\* --------------------------------------------------------------- captureEvent
EventData(n, t, d, ts) == [seq |-> n, type |-> t, data |-> d, timestamp |-> ts]

\* The queue and the history after this.events.push(event).  seq numbers the
\* captureEvent calls; it identifies an event and is not part of the payload.
Pushed(q, t, d) == Append(q, EventData(Len(captured) + 1, t, d, now))

SnapshotData(html) == [html |-> html]
ScrollData(x, y) == [scrollX |-> x, scrollY |-> y]

CanCapture == Len(captured) < MaxEvents

\* ------------------------------------------------------------------- Init
\* The state when the constructor returns: listeners registered, interval
\* scheduled, and captureInitialState has pushed its two events.
InitialEvents(doc, t) ==
  <<EventData(1, "domSnapshot", SnapshotData(sanitizeDOM(doc)), t),
    EventData(2, "scroll", ScrollData(0, 0), t)>>

\* config.websiteId and config.apiEndpoint as the caller passes them; a
\* field the caller leaves out reads as undefined.
Undefined == "undefined"
WebsiteIds == {"site-1", Undefined}
ApiEndpoints == {"https://collector.example", Undefined}

Configured == websiteId # Undefined /\ apiEndpoint # Undefined

Init ==
  /\ websiteId \in WebsiteIds
  /\ apiEndpoint \in ApiEndpoints
  /\ document \in Docs
  /\ now = StartTime
  /\ events = InitialEvents(document, now)
  /\ captured = events
  /\ isRunning = TRUE
  /\ sendInterval = 1
  /\ intervalActive = TRUE
  /\ lastDOMSnapshot = EmptyString
  /\ domSnapshotTimeout = NoHandle
  /\ timeouts = {}
  /\ notifiedAt = {}
  /\ computations = 0
  /\ lastMoveTime = 0
  /\ lastScrollTime = 0
  /\ inflight = {}
  /\ acked = <<>>
  /\ requests = 0
  /\ failures = 0
  /\ clickSignals = <<>>
  /\ movesInSpan = 0
  /\ ticks = 0

\* captureEvent(type, data)
captureEvent(t, d) ==
  /\ events' = Pushed(events, t, d)
  /\ captured' = Pushed(captured, t, d)

NoCapture == UNCHANGED <<events, captured>>

\* ------------------------------------------------------------ the listeners
Xs == {100}
Ys == {200}
TagNames == {"BUTTON", "svg"}
ScrollOffsets == {300}

MouseMoveData(x, y) == [x |-> x, y |-> y]

\* A slip in the threshold: 5 for 50.
MoveAcceptedShort(t, last) == t - last > 5

\* now - lastMoveTime > 50
MoveAccepted(t, last) == t - last > MoveThrottleMs

\* A cool-down that ends at 100 ms sharp.
ScrollAcceptedInclusive(t, last) == t - last >= ScrollThrottleMs

\* now - lastScrollTime > 100
ScrollAccepted(t, last) == t - last > ScrollThrottleMs

\* the instants of the first 10 ms after construction
InBurstSpan(t) == t - StartTime <= 10

Mousemove(x, y) ==
  /\ UNCHANGED config
  /\ InBurstSpan(now) => movesInSpan < MaxMoveSignals
  /\ movesInSpan' = IF InBurstSpan(now) THEN movesInSpan + 1 ELSE movesInSpan
  /\ IF MoveAccepted(now, lastMoveTime)
     THEN /\ CanCapture
          /\ captureEvent("mouseMove", MouseMoveData(x, y))
          /\ lastMoveTime' = now
     ELSE /\ NoCapture
          /\ UNCHANGED lastMoveTime
  /\ UNCHANGED <<isRunning, sendInterval, intervalActive, lastDOMSnapshot,
                 domSnapshotTimeout, timeouts, notifiedAt, computations, lastScrollTime, now, document,
                 inflight, acked, requests, failures, clickSignals, ticks>>

\* tagName.toLowerCase(), over TagNames
toLowerCase(s) == IF s = "BUTTON" THEN "button" ELSE s

\* The tag name as the element reports it, not lower-cased.
ClickDataRawTag(x, y, tagName) == [x |-> x, y |-> y, target |-> tagName]

ClickData(x, y, tagName) == [x |-> x, y |-> y, target |-> toLowerCase(tagName)]

Click(x, y, tagName) ==
  /\ UNCHANGED config
  /\ CanCapture
  /\ captureEvent("click", ClickData(x, y, tagName))
  /\ clickSignals' = Append(clickSignals, [x |-> x, y |-> y, tagName |-> tagName])
  /\ UNCHANGED <<isRunning, sendInterval, intervalActive, lastDOMSnapshot,
                 domSnapshotTimeout, timeouts, notifiedAt, computations, lastMoveTime, lastScrollTime, now,
                 document, inflight, acked, requests, failures, movesInSpan, ticks>>

Scroll(x, y) ==
  /\ UNCHANGED config
  /\ IF ScrollAccepted(now, lastScrollTime)
     THEN /\ CanCapture
          /\ captureEvent("scroll", ScrollData(x, y))
          /\ lastScrollTime' = now
     ELSE /\ NoCapture
          /\ UNCHANGED lastScrollTime
  /\ UNCHANGED <<isRunning, sendInterval, intervalActive, lastDOMSnapshot,
                 domSnapshotTimeout, timeouts, notifiedAt, computations, lastMoveTime, now, document,
                 inflight, acked, requests, failures, clickSignals, movesInSpan, ticks>>

\* ------------------------------------------------------------------- time
TickSteps == {5, MoveThrottleMs, MoveThrottleMs + 1, ScrollThrottleMs + 1,
              SnapshotDelayMs - 1, SnapshotDelayMs}

Tick(d) ==
  /\ UNCHANGED config
  /\ ticks < MaxTicks
  /\ ticks' = ticks + 1
  /\ now' = now + d
  /\ movesInSpan' = IF InBurstSpan(now') THEN movesInSpan ELSE 0
  /\ UNCHANGED <<events, isRunning, sendInterval, intervalActive, lastDOMSnapshot,
                 domSnapshotTimeout, timeouts, notifiedAt, computations, lastMoveTime, lastScrollTime,
                 document, inflight, captured, acked, requests, failures, clickSignals>>

\* -------------------------------------------------------------- snapshots
\* The page changes and the MutationObserver calls handleDOMMutation:
\* clearTimeout of the pending timeout, then setTimeout(..., 1000).
SnapshotDeadline(t) == t + SnapshotDelayMs

\* A pending timer of the event loop.
Timer(h, due) == [id |-> h, due |-> due]

\* setTimeout returns a handle no pending timer has; the interval holds handle 1.
NextHandle(h) == IF h = 2 THEN 3 ELSE 2

\* The cancellation left out.
clearTimeoutNot(ts, h) == ts

\* clearTimeout(handle): the timer of that handle, if still pending, is removed.
clearTimeout(ts, h) == {t \in ts : t.id # h}

handleDOMMutation(doc) ==
  /\ UNCHANGED config
  /\ document' = doc
  /\ LET cleared == IF domSnapshotTimeout # NoHandle
                    THEN clearTimeout(timeouts, domSnapshotTimeout)
                    ELSE timeouts
         handle == NextHandle(domSnapshotTimeout)
     IN /\ domSnapshotTimeout' = handle
        /\ timeouts' = cleared \cup {Timer(handle, SnapshotDeadline(now))}
  /\ notifiedAt' = notifiedAt \cup {now}
  /\ UNCHANGED <<events, isRunning, sendInterval, intervalActive, lastDOMSnapshot,
                 lastMoveTime, lastScrollTime, now, inflight, captured, acked,
                 requests, failures, clickSignals, movesInSpan, computations, ticks>>

\* The comparison left out.
SnapshotChangedAlways(currentDOM, last) == TRUE

\* currentDOM !== this.lastDOMSnapshot
SnapshotChanged(currentDOM, last) == currentDOM # last

\* The callback of that setTimeout; a timeout runs at or after its due instant.
SnapshotTimeout ==
  /\ UNCHANGED config
  /\ \E t \in timeouts :
       /\ now >= t.due
       /\ timeouts' = timeouts \ {t}
  /\ computations' = computations + 1
  /\ LET currentDOM == sanitizeDOM(document) IN
       IF SnapshotChanged(currentDOM, lastDOMSnapshot)
       THEN /\ CanCapture
            /\ captureEvent("domSnapshot", SnapshotData(currentDOM))
            /\ lastDOMSnapshot' = currentDOM
       ELSE /\ NoCapture
            /\ UNCHANGED lastDOMSnapshot
  /\ UNCHANGED <<isRunning, sendInterval, intervalActive, domSnapshotTimeout,
                 lastMoveTime, lastScrollTime, now, document, inflight, acked,
                 requests, failures, clickSignals, movesInSpan, notifiedAt, ticks>>

\* --------------------------------------------------------------- sendEvents
\* A suspended sendEvents call: its local eventsToSend and the await it is at.
\* sentAt is history: how many events had been captured when it took the queue.
Call(batch, at, n) == [eventsToSend |-> batch, awaiting |-> at, sentAt |-> n]

\* The emptiness test left out.
NothingToSendNever(q) == FALSE

\* if (this.events.length === 0) return
NothingToSend(q) == Len(q) = 0

\* A catch block that only logs.
RequeuedDropped(batch, q) == q

\* this.events = [...eventsToSend, ...this.events]
Requeued(batch, q) == batch \o q

\* A flush that leaves the queue as it was.
QueueKept(q) == q

\* this.events = [] (after const eventsToSend = [...this.events])
QueueAfterSwap(q) == <<>>

\* One run of the setInterval callback: sendEvents up to its first await.
\* The 1000 ms period is not modelled: the callback may run at any instant
\* while the interval is scheduled.  sendEvents reads no clock and fetch has
\* no timeout, so a send may stay suspended over any number of callbacks and
\* every order of callbacks, captures and completions shown here can occur.
TimerFire ==
  /\ UNCHANGED config
  /\ intervalActive
  /\ IF NothingToSend(events)
     THEN UNCHANGED <<events, inflight, requests>>
     ELSE /\ inflight' = inflight \cup {Call(events, "fetch", Len(captured))}
          /\ events' = QueueAfterSwap(events)
          /\ requests' = requests + 1
  /\ UNCHANGED <<isRunning, sendInterval, intervalActive, lastDOMSnapshot,
                 domSnapshotTimeout, timeouts, notifiedAt, computations, lastMoveTime, lastScrollTime, now,
                 document, captured, acked, failures, clickSignals, movesInSpan, ticks>>

\* The catch block: the batch goes back to the head of the queue.
SendFailed(c) ==
  /\ failures < MaxFailures
  /\ failures' = failures + 1
  /\ events' = Requeued(c.eventsToSend, events)
  /\ inflight' = inflight \ {c}

\* fetch rejects: a transport error
FetchReject(c) ==
  /\ UNCHANGED config
  /\ c.awaiting = "fetch"
  /\ SendFailed(c)
  /\ UNCHANGED <<isRunning, sendInterval, intervalActive, lastDOMSnapshot,
                 domSnapshotTimeout, timeouts, notifiedAt, computations, lastMoveTime, lastScrollTime, now,
                 document, captured, acked, requests, clickSignals, movesInSpan, ticks>>

\* fetch resolves with a response; !response.ok throws into the catch block,
\* otherwise the call goes on to await response.json()
FetchResolve(c, ok) ==
  /\ UNCHANGED config
  /\ c.awaiting = "fetch"
  /\ IF ok
     THEN /\ acked' = Append(acked, c.eventsToSend)
          /\ inflight' = (inflight \ {c}) \cup {Call(c.eventsToSend, "json", c.sentAt)}
          /\ UNCHANGED <<events, failures>>
     ELSE /\ SendFailed(c)
          /\ UNCHANGED acked
  /\ UNCHANGED <<isRunning, sendInterval, intervalActive, lastDOMSnapshot,
                 domSnapshotTimeout, timeouts, notifiedAt, computations, lastMoveTime, lastScrollTime, now,
                 document, captured, requests, clickSignals, movesInSpan, ticks>>

\* response.json() resolves: sendEvents returns
JsonResolve(c) ==
  /\ UNCHANGED config
  /\ c.awaiting = "json"
  /\ inflight' = inflight \ {c}
  /\ UNCHANGED <<events, isRunning, sendInterval, intervalActive, lastDOMSnapshot,
                 domSnapshotTimeout, timeouts, notifiedAt, computations, lastMoveTime, lastScrollTime, now,
                 document, captured, acked, requests, failures, clickSignals,
                 movesInSpan, ticks>>

\* response.json() rejects (an empty or non-JSON body): the catch block runs
JsonReject(c) ==
  /\ UNCHANGED config
  /\ c.awaiting = "json"
  /\ SendFailed(c)
  /\ UNCHANGED <<isRunning, sendInterval, intervalActive, lastDOMSnapshot,
                 domSnapshotTimeout, timeouts, notifiedAt, computations, lastMoveTime, lastScrollTime, now,
                 document, captured, acked, requests, clickSignals, movesInSpan, ticks>>

\* --------------------------------------------------------------------- stop
\* A stop that toggles the flag.
ToggledFlag == ~isRunning

\* this.isRunning = false
StoppedFlag == FALSE

\* A stop that only flips the flag.
IntervalKept(handle, active) == active

\* if (this.sendInterval) clearInterval(this.sendInterval)
IntervalAfterStop(handle, active) == IF handle # NoHandle THEN FALSE ELSE active

\* A stop that also cancels the pending snapshot timer.
StopCancellingAll ==
  /\ UNCHANGED config
  /\ isRunning' = StoppedFlag
  /\ intervalActive' = IntervalAfterStop(sendInterval, intervalActive)
  /\ timeouts' = {}
  /\ UNCHANGED <<events, sendInterval, lastDOMSnapshot, domSnapshotTimeout,
                 notifiedAt, computations, lastMoveTime, lastScrollTime, now,
                 document, inflight, captured, acked, requests, failures,
                 clickSignals, movesInSpan, ticks>>

Stop ==
  /\ UNCHANGED config
  /\ isRunning' = StoppedFlag
  /\ intervalActive' = IntervalAfterStop(sendInterval, intervalActive)
  /\ UNCHANGED <<events, sendInterval, lastDOMSnapshot, domSnapshotTimeout,
                 timeouts, notifiedAt, computations, lastMoveTime, lastScrollTime, now, document, inflight,
                 captured, acked, requests, failures, clickSignals, movesInSpan, ticks>>

\* ----------------------------------------------------------- specifications
Signals ==
  \/ \E x \in Xs, y \in Ys : Mousemove(x, y)
  \/ \E x \in Xs, y \in Ys, t \in TagNames : Click(x, y, t)
  \/ \E y \in ScrollOffsets : Scroll(0, y)

Network ==
  \/ \E c \in inflight : FetchReject(c)
  \/ \E c \in inflight, ok \in BOOLEAN : FetchResolve(c, ok)
  \/ \E c \in inflight : JsonResolve(c)
  \/ \E c \in inflight : JsonReject(c)

Next ==
  \/ Signals
  \/ \E d \in TickSteps : Tick(d)
  \/ \E doc \in Docs : handleDOMMutation(doc)
  \/ SnapshotTimeout
  \/ TimerFire
  \/ Network
  \/ Stop

Spec == Init /\ [][Next]_vars

\* The delivery pipeline alone: captureEvent calls (a click is never
\* throttled, so it stands for any listener that captures), the interval
\* callback, the completions of the awaits, and stop.
DeliveryInit == Init /\ Configured /\ document = PlainDoc

DeliveryNext ==
  \/ \E x \in Xs, y \in Ys : Click(x, y, "BUTTON")
  \/ TimerFire
  \/ Network
  \/ Stop

DeliverySpec == DeliveryInit /\ [][DeliveryNext]_vars

\* The listeners and the clock alone.
\* Deliveries and stop, with structural changes of the page arming the
\* snapshot timer.
StopNext ==
  \/ DeliveryNext
  \/ handleDOMMutation(ScriptDoc)

StopSpec == DeliveryInit /\ [][StopNext]_vars

ThrottleNext ==
  \/ Signals
  \/ \E d \in TickSteps : Tick(d)
  \/ Stop

ThrottleSpec == DeliveryInit /\ [][ThrottleNext]_vars

\* The snapshot path alone: page changes, the clock, the snapshot timeout,
\* and clicks as the other captures that may come in between.
SnapshotNext ==
  \/ \E doc \in Docs : handleDOMMutation(doc)
  \/ SnapshotTimeout
  \/ \E d \in TickSteps : Tick(d)
  \/ \E x \in Xs, y \in Ys : Click(x, y, "BUTTON")

SnapshotInit == Init /\ Configured

SnapshotSpec == SnapshotInit /\ [][SnapshotNext]_vars

\* Construction with any configuration, then the delivery pipeline.
\* The debounce alone, from a plain page: structural changes, the timer
\* callback and the clock.
DebounceNext ==
  \/ \E doc \in Docs : handleDOMMutation(doc)
  \/ SnapshotTimeout
  \/ \E d \in TickSteps : Tick(d)

DebounceInit == SnapshotInit /\ document = PlainDoc

DebounceSpec == DebounceInit /\ [][DebounceNext]_vars

ConstructInit == Init /\ document = PlainDoc

ConstructSpec == ConstructInit /\ [][DeliveryNext]_vars

\* With the fairness the claim of eventual delivery assumes: the interval
\* callback keeps running while the interval is scheduled, and every pending
\* response and body eventually arrives.  Failed sends are bounded by
\* MaxFailures, so from some point on every send succeeds.
LiveSpec ==
  /\ DeliverySpec
  /\ WF_vars(TimerFire)
  /\ WF_vars(\E c \in inflight : FetchResolve(c, TRUE))
  /\ WF_vars(\E c \in inflight : JsonResolve(c))

\* ------------------------------------------------------------ the properties
RECURSIVE Flat(_)
Flat(batches) ==
  IF batches = <<>> THEN <<>> ELSE Head(batches) \o Flat(Tail(batches))

\* The events the collector has acknowledged, batch by batch in the order of
\* the acknowledgements.
Delivered == Flat(acked)

Occurrences(q, e) == Cardinality({i \in 1..Len(q) : q[i] = e})

IsAcked(e) == \E i \in 1..Len(Delivered) : Delivered[i] = e

\* C1: the events acknowledged by the collector, batch by batch in the order
\* of the acknowledgements, are in capture order: no event is delivered after
\* an event that was captured later than it.
DeliveredInCaptureOrder ==
  \A i, j \in 1..Len(Delivered) : i < j => Delivered[i].seq <= Delivered[j].seq

\* C2: every captured event is in exactly one place: once in the queue, or in
\* exactly one batch awaiting its response, or among the acknowledged events.
AwaitingResponse == {c \in inflight : c.awaiting = "fetch"}

Places(e) ==
  Occurrences(events, e)
  + Cardinality({c \in AwaitingResponse : Occurrences(c.eventsToSend, e) > 0})
  + (IF IsAcked(e) THEN 1 ELSE 0)

ExactlyOnePlace ==
  /\ \A i \in 1..Len(captured) : Places(captured[i]) = 1
  /\ \A c \in AwaitingResponse :
       \A i \in 1..Len(c.eventsToSend) : Occurrences(c.eventsToSend, c.eventsToSend[i]) = 1

\* C3: while the session is running, every captured event is eventually
\* acknowledged by the collector, whatever sends failed before.
AllAcked == \A i \in 1..Len(captured) : IsAcked(captured[i])

EventuallyDelivered == []<>(~isRunning \/ AllAcked)

\* C3 witness: a batch failed, and later every captured event was acknowledged
\* while the session was still running.
DeliveredAfterFailure ==
  /\ isRunning
  /\ failures > 0
  /\ Len(captured) > InitialCaptures
  /\ \A i \in 1..Len(captured) : IsAcked(captured[i])

\* C4: when the send of a batch fails and no other send is in flight, the
\* queue right after the failure is the batch followed by exactly the events
\* captured while it was in flight, in capture order.
CapturedSince(n) == SubSeq(captured, n + 1, Len(captured))

RequeueRestoresOrder ==
  [][\A c \in inflight :
       (failures' = failures + 1 /\ c \notin inflight' /\ inflight' = {})
         => events' = c.eventsToSend \o CapturedSince(c.sentAt)]_vars

\* C5: a flush of an empty queue issues no request and changes nothing; every
\* request carries a non-empty batch, and a timer fire issues at most one.
EmptyFlushIsNoOp ==
  /\ [](\A c \in inflight : c.eventsToSend # <<>>)
  /\ [](\A i \in 1..Len(acked) : acked[i] # <<>>)
  /\ [][/\ requests' <= requests + 1
        /\ requests' = requests + 1 =>
             /\ events # <<>>
             /\ inflight' = inflight \cup {Call(events, "fetch", Len(captured))}
        /\ (TimerFire /\ events = <<>>) => UNCHANGED vars]_vars

\* C5 witness: the queue is empty with the interval still scheduled, after a
\* batch was sent and acknowledged: the next timer fire is an empty flush.
EmptyFlushPossible ==
  /\ events = <<>>
  /\ intervalActive
  /\ inflight = {}
  /\ requests >= 1
  /\ ENABLED TimerFire

\* C6: of two consecutive snapshot computations with identical sanitized
\* output only one enqueues a domSnapshot event: consecutive domSnapshot
\* events of a session never carry the same html, the snapshot taken at
\* construction included.
IsSnapshot(e) == e.type = "domSnapshot"

Snapshots == SelectSeq(captured, IsSnapshot)

NoRepeatedSnapshot ==
  \A i \in 1..Len(Snapshots) - 1 : Snapshots[i].data.html # Snapshots[i + 1].data.html

\* C7: no two mouseMove events are captured within 50 ms of each other, no
\* two scroll events captured from scroll signals within 100 ms of each other,
\* and the pointer-move signals of the first 10 ms after construction, however
\* many, give exactly one mouseMove event.
OfType(t) == {i \in 1..Len(captured) : captured[i].type = t}

Apart(is, ms) ==
  \A i, j \in is : i < j => captured[j].timestamp - captured[i].timestamp >= ms

ThrottleHolds ==
  /\ Apart(OfType("mouseMove"), MoveThrottleMs)
  /\ Apart({i \in OfType("scroll") : i > InitialCaptures}, ScrollThrottleMs)
  /\ (movesInSpan >= 1 /\ InBurstSpan(now)) => Cardinality(OfType("mouseMove")) = 1

\* C7 witness: ten pointer-move signals in the first 10 ms, not all at the
\* same instant, and one mouseMove event.
BurstOfTen ==
  /\ movesInSpan = 10
  /\ now > StartTime
  /\ InBurstSpan(now)
  /\ Cardinality(OfType("mouseMove")) = 1

\* C8: every click signal appends exactly one click event to the queue, with
\* the click's x and y and the lower-cased tag name of its target, whatever
\* the throttle state, and leaves both throttle timestamps alone.
IsClick(e) == e.type = "click"

ClickEvents == SelectSeq(captured, IsClick)

LowerCased(tagName) ==
  CASE tagName = "BUTTON" -> "button"
    [] tagName = "svg" -> "svg"

EveryClickCaptured ==
  /\ [](/\ Len(ClickEvents) = Len(clickSignals)
        /\ \A i \in 1..Len(clickSignals) :
             ClickEvents[i].data = [x |-> clickSignals[i].x, y |-> clickSignals[i].y,
                                    target |-> LowerCased(clickSignals[i].tagName)])
  /\ [](CanCapture => \A t \in TagNames : ENABLED Click(100, 200, t))
  /\ [][Len(clickSignals') = Len(clickSignals) + 1 =>
          /\ Len(events') = Len(events) + 1
          /\ SubSeq(events', 1, Len(events)) = events
          /\ IsClick(events'[Len(events')])
          /\ lastMoveTime' = lastMoveTime
          /\ lastScrollTime' = lastScrollTime]_vars

\* C8 witness: a click at (100,200) on a button, captured at the very instant
\* of the pointer move before it, while pointer moves are inside their
\* cool-down.
ClickWhileThrottled ==
  /\ Len(captured) = InitialCaptures + 2
  /\ captured[InitialCaptures + 1].type = "mouseMove"
  /\ IsClick(captured[InitialCaptures + 2])
  /\ captured[InitialCaptures + 2].timestamp = captured[InitialCaptures + 1].timestamp
  /\ captured[InitialCaptures + 2].data = [x |-> 100, y |-> 200, target |-> "button"]
  /\ ~MoveAccepted(now, lastMoveTime)
  /\ now > StartTime

\* C9: once stop has run, the interval callback never runs again and no
\* request is issued, whatever is captured afterwards.
NoFlushAfterStop ==
  /\ [](~isRunning => ~ENABLED TimerFire)
  /\ [][~isRunning => requests' = requests]_vars

\* C9 witness: stopped after a batch was sent, with events captured into the
\* queue that no later flush takes.
StoppedWithPending ==
  /\ ~isRunning
  /\ requests >= 1
  /\ inflight = {}
  /\ Len(events) >= 2

\* C10: stop can always be called; after it the session is not running and
\* the interval is cancelled; calling it again changes nothing, and nothing
\* sets running back to true.
StopIsIdempotent ==
  /\ [](ENABLED Stop)
  /\ [][Stop => (~isRunning' /\ ~intervalActive')]_vars
  /\ [][~isRunning => (~isRunning' /\ ~intervalActive')]_vars
  /\ [][(Stop /\ ~isRunning) => UNCHANGED vars]_vars

\* C10 witness: stopped, with the interval cancelled, and work went on after
\* the stop (a send that was in flight completed).
StoppedForGood ==
  /\ ~isRunning
  /\ ~intervalActive
  /\ sendInterval # NoHandle
  /\ Len(acked) >= 1
  /\ events # <<>>

\* C11: the html of every enqueued snapshot event holds no script element, no
\* attribute whose name begins with 'on', and no non-empty value for an input
\* of type password or hidden.
HtmlOf(e) == e.data.html

IsSensitiveInput(el) ==
  /\ el.tag = "input"
  /\ \E a \in el.attrs : a.name = "type" /\ a.value \in {"password", "hidden"}

HasValue(el) == \E a \in el.attrs : a.name = "value" /\ a.value # ""

CleanHtml(html) ==
  \A i \in 1..Len(html) :
    /\ html[i].tag # "script"
    /\ \A a \in html[i].attrs : ~StartsWithOn(a.name)
    /\ IsSensitiveInput(html[i]) => ~HasValue(html[i])

SnapshotsAreClean ==
  \A i \in 1..Len(captured) : IsSnapshot(captured[i]) => CleanHtml(HtmlOf(captured[i]))

\* C12: a session constructed without websiteId or without apiEndpoint does
\* not start: it is not running, no interval is scheduled, no listener
\* captures and nothing is enqueued; with both it is running once constructed.
StartsOnlyConfigured ==
  /\ Configured =>
       /\ sendInterval # NoHandle
       /\ Len(captured) >= InitialCaptures
  /\ ~Configured =>
       /\ ~isRunning
       /\ ~intervalActive
       /\ sendInterval = NoHandle
       /\ events = <<>>
       /\ captured = <<>>
       /\ ~ENABLED (\E x \in Xs, y \in Ys, t \in TagNames : Click(x, y, t))

\* C13: a non-empty flush is one step: its batch is exactly the queue at that
\* instant, in order, and the queue is empty right after it.  An event
\* captured later, while the send awaits its response, is appended to the
\* queue and is no part of that batch; the batch of a suspended call never
\* changes, and a send that succeeds leaves the queue alone.
Last(q) == q[Len(q)]

FlushIsAtomic ==
  /\ [](\A c \in inflight :
          \A i \in 1..Len(c.eventsToSend) : c.eventsToSend[i].seq <= c.sentAt)
  /\ [][requests' = requests + 1 =>
          /\ events' = <<>>
          /\ \E c \in inflight' \ inflight :
               /\ c.eventsToSend = events
               /\ inflight' = inflight \cup {c}]_vars
  /\ [][Len(captured') = Len(captured) + 1 =>
          /\ events' = Append(events, Last(captured'))
          /\ inflight' = inflight]_vars
  /\ [][(inflight' # inflight /\ requests' = requests /\ failures' = failures) =>
          /\ events' = events
          /\ {c.eventsToSend : c \in inflight'} \subseteq {c.eventsToSend : c \in inflight}]_vars

\* C13 witness: a batch awaits its response while an event captured after the
\* flush sits in the queue.
CapturedDuringSend ==
  \E c \in inflight :
    /\ c.awaiting = "fetch"
    /\ Len(c.eventsToSend) = InitialCaptures
    /\ events # <<>>
    /\ \A i \in 1..Len(events) : events[i].seq > c.sentAt

\* C14: a batch goes back into the queue if and only if its send failed by a
\* transport error or a non-success status: such a failure re-queues the
\* whole batch, and a response with a success status acknowledges it, after
\* which none of its events is in the queue or transmitted again.
RequeuedIffFailed ==
  /\ [](\A i \in 1..Len(events) : ~IsAcked(events[i]))
  /\ [](\A c \in AwaitingResponse :
          \A i \in 1..Len(c.eventsToSend) : ~IsAcked(c.eventsToSend[i]))
  /\ [][failures' = failures + 1 =>
          \E c \in inflight \ inflight' : events' = c.eventsToSend \o events]_vars
  /\ [][Len(acked') = Len(acked) + 1 => events' = events]_vars


\* The latest instant of a non-empty set of instants.
Max(S) == CHOOSE x \in S : \A y \in S : y <= x

\* C16: trailing-edge debounce. At most one snapshot timer is pending, and it
\* is due 1000 ms after the last structural-change notification; each
\* notification replaces the pending timer by a new one 1000 ms ahead; a
\* snapshot computation runs only when no notification arrived in the
\* preceding 1000 ms and consumes the only timer, so a burst of notifications
\* yields exactly one computation, due 1000 ms after the last of them.
OneTrailingTimer ==
  /\ [](Cardinality(timeouts) <= 1)
  /\ [](\A t \in timeouts : /\ notifiedAt # {}
                            /\ t.due = Max(notifiedAt) + SnapshotDelayMs
                            /\ t.id = domSnapshotTimeout)
  /\ [][domSnapshotTimeout' # domSnapshotTimeout =>
          /\ timeouts' = {Timer(domSnapshotTimeout', now + SnapshotDelayMs)}
          /\ now \in notifiedAt'
          /\ computations' = computations]_vars
  /\ [][computations' = computations + 1 =>
          /\ \A t \in notifiedAt : now - t >= SnapshotDelayMs
          /\ timeouts # {}
          /\ timeouts' = {}]_vars
  /\ []((ENABLED SnapshotTimeout) => timeouts # {})
  /\ []((/\ timeouts # {}
         /\ now >= Max(notifiedAt) + SnapshotDelayMs
         /\ CanCapture) => ENABLED SnapshotTimeout)

\* A burst of two notifications less than 1000 ms apart has been followed by
\* its one computation, 1000 ms after the second.
BurstComputedOnce ==
  /\ computations = 1
  /\ timeouts = {}
  /\ \E a, b \in notifiedAt : /\ a < b
                              /\ b - a < SnapshotDelayMs
                              /\ now = b + SnapshotDelayMs


\* The snapshots the debounced computations captured, in order.
ComputedSnapshots == SelectSeq(captured, LAMBDA e : IsSnapshot(e) /\ e.seq > InitialCaptures)

\* C17: when a debounced snapshot computation runs and the sanitized result
\* equals lastDOMSnapshot, neither the queue nor lastDOMSnapshot changes; when
\* it differs, exactly one domSnapshot event carrying the result is appended
\* and lastDOMSnapshot is set to it in that same step, so lastDOMSnapshot is
\* always the content of the last computed snapshot.
SnapshotDedup ==
  /\ [][computations' = computations + 1 =>
          LET currentDOM == sanitizeDOM(document) IN
            IF currentDOM = lastDOMSnapshot
            THEN /\ events' = events
                 /\ captured' = captured
                 /\ lastDOMSnapshot' = lastDOMSnapshot
            ELSE /\ Len(events') = Len(events) + 1
                 /\ SubSeq(events', 1, Len(events)) = events
                 /\ IsSnapshot(Last(events'))
                 /\ HtmlOf(Last(events')) = currentDOM
                 /\ captured' = Append(captured, Last(events'))
                 /\ lastDOMSnapshot' = currentDOM]_vars
  /\ [][computations' \in {computations, computations + 1}]_vars
  /\ [][lastDOMSnapshot' # lastDOMSnapshot => computations' = computations + 1]_vars
  /\ [](lastDOMSnapshot = IF ComputedSnapshots = <<>> THEN EmptyString
                          ELSE HtmlOf(Last(ComputedSnapshots)))

\* Two computations have run: the first captured a snapshot, the second found
\* the page equal to lastDOMSnapshot and captured nothing.
ComputedTwiceCapturedOnce ==
  /\ computations = 2
  /\ Len(ComputedSnapshots) = 1
  /\ lastDOMSnapshot = sanitizeDOM(document)


\* C15: stop changes only the running flag and the periodic timer: the queue,
\* the sends in flight, the pending snapshot timer and lastDOMSnapshot are as
\* before and no request is issued; a send in flight at the stop can still
\* complete, and when it fails its batch goes back to the head of the queue.
StopChangesOnlyTimer ==
  /\ [][(isRunning /\ ~isRunning') =>
          /\ ~intervalActive'
          /\ events' = events
          /\ inflight' = inflight
          /\ timeouts' = timeouts
          /\ domSnapshotTimeout' = domSnapshotTimeout
          /\ lastDOMSnapshot' = lastDOMSnapshot
          /\ sendInterval' = sendInterval
          /\ requests' = requests
          /\ failures' = failures
          /\ captured' = captured
          /\ acked' = acked]_vars
  /\ [](~isRunning =>
          \A c \in inflight :
            /\ c.awaiting = "fetch" =>
                 /\ ENABLED FetchResolve(c, TRUE)
                 /\ failures < MaxFailures => ENABLED FetchReject(c)
            /\ c.awaiting = "json" => ENABLED JsonResolve(c))
  /\ [][(~isRunning /\ failures' = failures + 1) =>
          \E c \in inflight \ inflight' : events' = c.eventsToSend \o events]_vars

\* Stopped with a send in flight, a snapshot timer pending and events queued.
StoppedMidSend ==
  /\ ~isRunning
  /\ inflight # {}
  /\ timeouts # {}
  /\ events # <<>>


\* C18: leading-edge acceptance with independent cool-downs. A pointer-move
\* signal arriving 50 ms or more after the last accepted one is captured, and
\* a scroll signal arriving 100 ms or more after the last accepted one; a
\* signal that captures nothing leaves the queue and both cool-downs as they
\* were; accepting a signal of one source leaves the other cool-down alone.
LeadingEdgeAcceptance ==
  /\ []((now - lastMoveTime >= MoveThrottleMs /\ CanCapture) =>
          ENABLED (/\ \E x \in Xs, y \in Ys : Mousemove(x, y)
                   /\ Len(captured') = Len(captured) + 1))
  /\ []((now - lastScrollTime >= ScrollThrottleMs /\ CanCapture) =>
          ENABLED (/\ \E y \in ScrollOffsets : Scroll(0, y)
                   /\ Len(captured') = Len(captured) + 1))
  /\ [][Len(captured') = Len(captured) =>
          /\ events' = events
          /\ lastMoveTime' = lastMoveTime
          /\ lastScrollTime' = lastScrollTime]_vars
  /\ [][lastMoveTime' # lastMoveTime => lastScrollTime' = lastScrollTime]_vars
  /\ [][lastScrollTime' # lastScrollTime => lastMoveTime' = lastMoveTime]_vars




\* ------------------------------------------- the earliest variant (part_000)
\* The class as first written: the constructor only registers the listeners,
\* there is no interval, no snapshot and no stop; captureEvent calls
\* sendEvents itself.
EarlyInit ==
  /\ websiteId \in WebsiteIds
  /\ apiEndpoint \in ApiEndpoints
  /\ Configured
  /\ document = PlainDoc
  /\ now = StartTime
  /\ events = <<>>
  /\ captured = <<>>
  /\ isRunning = FALSE
  /\ sendInterval = NoHandle
  /\ intervalActive = FALSE
  /\ lastDOMSnapshot = EmptyString
  /\ domSnapshotTimeout = NoHandle
  /\ timeouts = {}
  /\ notifiedAt = {}
  /\ computations = 0
  /\ lastMoveTime = 0
  /\ lastScrollTime = 0
  /\ inflight = {}
  /\ acked = <<>>
  /\ requests = 0
  /\ failures = 0
  /\ clickSignals = <<>>
  /\ movesInSpan = 0
  /\ ticks = 0

\* this.events.push(event); this.sendEvents(): the queue is never empty after
\* the push, so the call takes the whole queue and suspends at await fetch.
EarlyCaptureEvent(t, d) ==
  /\ captured' = Pushed(captured, t, d)
  /\ inflight' = inflight \cup {Call(Pushed(events, t, d), "fetch", Len(captured) + 1)}
  /\ events' = <<>>
  /\ requests' = requests + 1

\* the click listener of the early variant
EarlyClick(x, y, tagName) ==
  /\ UNCHANGED config
  /\ CanCapture
  /\ EarlyCaptureEvent("click", ClickData(x, y, tagName))
  /\ clickSignals' = Append(clickSignals, [x |-> x, y |-> y, tagName |-> tagName])
  /\ UNCHANGED <<isRunning, sendInterval, intervalActive, lastDOMSnapshot,
                 domSnapshotTimeout, timeouts, notifiedAt, computations,
                 lastMoveTime, lastScrollTime, now, document, acked, failures,
                 movesInSpan, ticks>>

\* fetch rejects: the catch block puts the batch back at the head of the queue
EarlyFetchReject(c) ==
  /\ UNCHANGED config
  /\ c.awaiting = "fetch"
  /\ failures' = failures + 1
  /\ events' = Requeued(c.eventsToSend, events)
  /\ inflight' = inflight \ {c}
  /\ UNCHANGED <<isRunning, sendInterval, intervalActive, lastDOMSnapshot,
                 domSnapshotTimeout, timeouts, notifiedAt, computations,
                 lastMoveTime, lastScrollTime, now, document, captured, acked,
                 requests, clickSignals, movesInSpan, ticks>>

\* fetch resolves with a response: the status is not looked at and sendEvents
\* returns.  A non-success status is a failed send that nothing handles.
EarlyFetchResolve(c, ok) ==
  /\ UNCHANGED config
  /\ c.awaiting = "fetch"
  /\ inflight' = inflight \ {c}
  /\ acked' = IF ok THEN Append(acked, c.eventsToSend) ELSE acked
  /\ failures' = IF ok THEN failures ELSE failures + 1
  /\ UNCHANGED <<events, isRunning, sendInterval, intervalActive, lastDOMSnapshot,
                 domSnapshotTimeout, timeouts, notifiedAt, computations,
                 lastMoveTime, lastScrollTime, now, document, captured,
                 requests, clickSignals, movesInSpan, ticks>>

EarlyNext ==
  \/ \E x \in Xs, y \in Ys, tagName \in TagNames : EarlyClick(x, y, tagName)
  \/ \E c \in inflight : EarlyFetchReject(c)
  \/ \E c \in inflight, ok \in BOOLEAN : EarlyFetchResolve(c, ok)

EarlySpec == EarlyInit /\ [][EarlyNext]_vars

\* C19: in the earliest variant every failed transmission, a transport error
\* or a response with a non-success status, puts the sent batch back at the
\* head of the queue, so every captured event is in the queue, in a send
\* awaiting its response, or acknowledged: none is dropped.
EarlyFailureRequeues ==
  /\ [][failures' = failures + 1 =>
          \E c \in inflight \ inflight' : events' = c.eventsToSend \o events]_vars
  /\ [](\A i \in 1..Len(captured) : Places(captured[i]) >= 1)


\* The scroll events captured from scroll signals (the second captured event
\* is the scroll position captureInitialState records).
SignalScrolls == {i \in OfType("scroll") : i > InitialCaptures}

\* C20 as stated: any two scroll events of the log, the initial scroll-position
\* event included, are more than 100 ms apart.
AllScrollsApart ==
  \A i, j \in OfType("scroll") :
    i < j => captured[j].timestamp - captured[i].timestamp > ScrollThrottleMs

\* C20 as amended: any two scroll events captured from scroll signals are more
\* than 100 ms apart; the initial scroll capture does not start the cool-down,
\* which stays unset until a scroll signal is accepted, so the first scroll
\* signal is captured however soon after construction it arrives.
SignalScrollsApart ==
  /\ \A i, j \in SignalScrolls :
       i < j => captured[j].timestamp - captured[i].timestamp > ScrollThrottleMs
  /\ SignalScrolls = {} => lastScrollTime = 0
  /\ (SignalScrolls = {} /\ CanCapture) =>
       ENABLED (/\ \E y \in ScrollOffsets : Scroll(0, y)
                /\ Len(captured') = Len(captured) + 1)
  /\ SignalScrolls # {} =>
       lastScrollTime = captured[CHOOSE i \in SignalScrolls :
                                   \A j \in SignalScrolls : j <= i].timestamp

\* A scroll signal was captured at the instant of construction, next to the
\* initial scroll event, and a later one after the cool-down.
ScrollAtConstruction ==
  \E i, j \in SignalScrolls :
    /\ captured[i].timestamp = captured[InitialCaptures].timestamp
    /\ captured[j].timestamp > captured[i].timestamp

====
